---- MODULE Spec2Model ----
(***************************************************************************)
(* ClogniChain Lite: the audit Logger (gzip append log + SQLite index),    *)
(* the RingBuffer and the OmniHub registry, modelled from the Python       *)
(* sources.                                                                *)
(*                                                                         *)
(* Text is a sequence of one-character strings.  A character outside       *)
(* ASCII is written as the token "U+XXXX" of its code point.               *)
(* A JSON value is a tagged record:                                        *)
(*   [t |-> "str",  v |-> text]      [t |-> "int", v |-> integer]          *)
(*   [t |-> "list", v |-> <<values>>]                                      *)
(*   [t |-> "obj",  v |-> << <<key text, value>>, ... >>]  (a Python dict, *)
(*   which keeps the insertion order of its keys).                         *)
(***************************************************************************)
EXTENDS Integers, Sequences, FiniteSets, TLC

\* ------------------------------------------------------------------ bounds
MaxCalls == 2
MaxClock == 1

\* ------------------------------------------------------------------- text
Ascii ==
  << " ", "!", "\"", "#", "$", "%", "&", "'", "(", ")", "*", "+", ",", "-",
     ".", "/", "0", "1", "2", "3", "4", "5", "6", "7", "8", "9", ":", ";",
     "<", "=", ">", "?", "@", "A", "B", "C", "D", "E", "F", "G", "H", "I",
     "J", "K", "L", "M", "N", "O", "P", "Q", "R", "S", "T", "U", "V", "W",
     "X", "Y", "Z", "[", "\\", "]", "^", "_", "U+0060", "a", "b", "c", "d", "e",
     "f", "g", "h", "i", "j", "k", "l", "m", "n", "o", "p", "q", "r", "s",
     "t", "u", "v", "w", "x", "y", "z", "{", "|", "}", "~" >>

\* (position 65 is the grave accent, written as the token "U+0060")
OrdTable ==
  [c \in {Ascii[i] : i \in 1..Len(Ascii)} |->
     31 + (CHOOSE i \in 1..Len(Ascii) : Ascii[i] = c)]

IsAscii(c) == c \in DOMAIN OrdTable

\* ord(c) of an ASCII character
Ord(c) == OrdTable[c]

\* The characters outside ASCII that occur in the modelled payloads, with
\* the four hex digits json.dumps writes after "\u" and their UTF-8 bytes.
NonAsciiHex == [c \in {"U+00E9"} |-> <<"0", "0", "e", "9">>]

NonAsciiUtf8 == [c \in {"U+00E9"} |-> <<195, 169>>]

HexDigits ==
  <<"0", "1", "2", "3", "4", "5", "6", "7", "8", "9",
    "a", "b", "c", "d", "e", "f">>

RECURSIVE Concat(_)
\* "".join(parts)
Concat(parts) ==
  IF parts = <<>> THEN <<>> ELSE Head(parts) \o Concat(Tail(parts))

RECURSIVE Join(_, _)
\* sep.join(parts)
Join(sep, parts) ==
  IF parts = <<>> THEN <<>>
  ELSE IF Len(parts) = 1 THEN parts[1]
  ELSE parts[1] \o sep \o Join(sep, Tail(parts))

RECURSIVE NatToText(_)
NatToText(n) ==
  IF n < 10 THEN <<HexDigits[n + 1]>>
  ELSE NatToText(n \div 10) \o <<HexDigits[(n % 10) + 1]>>

\* str(n) of a Python int
IntToText(n) == IF n < 0 THEN <<"-">> \o NatToText(0 - n) ELSE NatToText(n)

\* ------------------------------------------------------------- json.dumps
\* one character of a JSON string literal, as json.dumps escapes it
EscapeChar(c, ensure_ascii) ==
  IF c = "\"" THEN <<"\\", "\"">>
  ELSE IF c = "\\" THEN <<"\\", "\\">>
  ELSE IF ~IsAscii(c) /\ ensure_ascii THEN <<"\\", "u">> \o NonAsciiHex[c]
  ELSE <<c>>

DumpStr(s, ensure_ascii) ==
  <<"\"">> \o Concat([i \in 1..Len(s) |-> EscapeChar(s[i], ensure_ascii)])
           \o <<"\"">>

RECURSIVE json_dumps(_, _)
\* json.dumps(v, ensure_ascii=...): default separators ", " and ": ",
\* keys in the dict's own order (sort_keys is not set).
json_dumps(v, ensure_ascii) ==
  CASE v.t = "str" -> DumpStr(v.v, ensure_ascii)
    [] v.t = "int" -> IntToText(v.v)
    [] v.t = "list" ->
         <<"[">> \o Join(<<",", " ">>,
                         [i \in 1..Len(v.v) |->
                            json_dumps(v.v[i], ensure_ascii)])
                 \o <<"]">>
    [] v.t = "obj" ->
         <<"{">> \o Join(<<",", " ">>,
                         [i \in 1..Len(v.v) |->
                            DumpStr(v.v[i][1], ensure_ascii)
                              \o <<":", " ">>
                              \o json_dumps(v.v[i][2], ensure_ascii)])
                 \o <<"}">>

\* ---------------------------------------------------------------- hashing
\* str.encode(): the UTF-8 bytes of a text
encode(s) ==
  Concat([i \in 1..Len(s) |->
            IF IsAscii(s[i]) THEN <<Ord(s[i])>> ELSE NonAsciiUtf8[s[i]]])

HashBits == 24

HashMod == 2 ^ HashBits

RECURSIVE HashBytes(_, _)
HashBytes(bytes, h) ==
  IF bytes = <<>> THEN h
  ELSE HashBytes(Tail(bytes), (h * 31 + Head(bytes)) % HashMod)

RECURSIVE HexOf(_, _)
HexOf(n, width) ==
  IF width = 0 THEN <<>>
  ELSE HexOf(n \div 16, width - 1) \o <<HexDigits[(n % 16) + 1]>>

\* hashlib.sha256(bytes).hexdigest(): a fixed-length lower-case hex digest
\* that depends on nothing but the bytes (the digest is shortened to
\* HashBits bits here).
sha256_hexdigest(bytes) == HexOf(HashBytes(bytes, 7), HashBits \div 4)

\* ------------------------------------------------------------- json.loads
ParseFail == [ok |-> FALSE, val |-> <<>>, pos |-> 0]

ParseOk(v, p) == [ok |-> TRUE, val |-> v, pos |-> p]

Digits == {HexDigits[d] : d \in 1..10}

IsDigit(c) == c \in Digits

DigitVal(c) == (CHOOSE d \in 1..10 : HexDigits[d] = c) - 1

RECURSIVE SkipWs(_, _)
SkipWs(s, i) == IF i <= Len(s) /\ s[i] = " " THEN SkipWs(s, i + 1) ELSE i

RECURSIVE ParseStrBody(_, _, _)
\* the characters of a string literal after its opening quote
ParseStrBody(s, i, acc) ==
  IF i > Len(s) THEN ParseFail
  ELSE IF s[i] = "\"" THEN ParseOk(acc, i + 1)
  ELSE IF s[i] = "\\" THEN
    IF i + 1 > Len(s) THEN ParseFail
    ELSE IF s[i + 1] \in {"\"", "\\", "/"}
      THEN ParseStrBody(s, i + 2, Append(acc, s[i + 1]))
    ELSE IF s[i + 1] = "u" /\ i + 5 <= Len(s)
              /\ \E c \in DOMAIN NonAsciiHex :
                    NonAsciiHex[c] = SubSeq(s, i + 2, i + 5)
      THEN ParseStrBody(s, i + 6,
             Append(acc, CHOOSE c \in DOMAIN NonAsciiHex :
                           NonAsciiHex[c] = SubSeq(s, i + 2, i + 5)))
    ELSE ParseFail
  ELSE ParseStrBody(s, i + 1, Append(acc, s[i]))

RECURSIVE ParseNat(_, _, _)
ParseNat(s, i, acc) ==
  IF i <= Len(s) /\ IsDigit(s[i])
    THEN ParseNat(s, i + 1, acc * 10 + DigitVal(s[i]))
    ELSE ParseOk([t |-> "int", v |-> acc], i)

ParseInt(s, i) ==
  IF s[i] = "-"
    THEN IF i + 1 <= Len(s) /\ IsDigit(s[i + 1])
           THEN LET r == ParseNat(s, i + 1, 0)
                IN ParseOk([t |-> "int", v |-> 0 - r.val.v], r.pos)
           ELSE ParseFail
    ELSE ParseNat(s, i, 0)

\* d[k] = v on a dict: a new key goes last, an existing key keeps its place
DictSet(pairs, k, v) ==
  IF \E i \in 1..Len(pairs) : pairs[i][1] = k
    THEN [i \in 1..Len(pairs) |->
            IF pairs[i][1] = k THEN <<k, v>> ELSE pairs[i]]
    ELSE Append(pairs, <<k, v>>)

RECURSIVE ParseValue(_, _)
RECURSIVE ParseElems(_, _, _)
RECURSIVE ParseMembers(_, _, _)

\* the elements of an array after "[" or ","
ParseElems(s, i, acc) ==
  LET r == ParseValue(s, i) IN
  IF ~r.ok THEN ParseFail
  ELSE LET k == SkipWs(s, r.pos) IN
       IF k > Len(s) THEN ParseFail
       ELSE IF s[k] = "," THEN ParseElems(s, k + 1, Append(acc, r.val))
       ELSE IF s[k] = "]"
         THEN ParseOk([t |-> "list", v |-> Append(acc, r.val)], k + 1)
       ELSE ParseFail

\* the members of an object after "{" or ","
ParseMembers(s, i, acc) ==
  LET j == SkipWs(s, i) IN
  IF j > Len(s) \/ s[j] # "\"" THEN ParseFail
  ELSE LET key == ParseStrBody(s, j + 1, <<>>) IN
       IF ~key.ok THEN ParseFail
       ELSE LET c == SkipWs(s, key.pos) IN
            IF c > Len(s) \/ s[c] # ":" THEN ParseFail
            ELSE LET r == ParseValue(s, c + 1) IN
                 IF ~r.ok THEN ParseFail
                 ELSE LET k == SkipWs(s, r.pos) IN
                      IF k > Len(s) THEN ParseFail
                      ELSE IF s[k] = ","
                        THEN ParseMembers(s, k + 1,
                                          DictSet(acc, key.val, r.val))
                      ELSE IF s[k] = "}"
                        THEN ParseOk([t |-> "obj",
                                      v |-> DictSet(acc, key.val, r.val)],
                                     k + 1)
                      ELSE ParseFail

ParseValue(s, i) ==
  LET j == SkipWs(s, i) IN
  IF j > Len(s) THEN ParseFail
  ELSE IF s[j] = "\"" THEN
    LET r == ParseStrBody(s, j + 1, <<>>) IN
    IF r.ok THEN ParseOk([t |-> "str", v |-> r.val], r.pos) ELSE ParseFail
  ELSE IF s[j] = "[" THEN
    LET k == SkipWs(s, j + 1) IN
    IF k <= Len(s) /\ s[k] = "]"
      THEN ParseOk([t |-> "list", v |-> <<>>], k + 1)
      ELSE ParseElems(s, k, <<>>)
  ELSE IF s[j] = "{" THEN
    LET k == SkipWs(s, j + 1) IN
    IF k <= Len(s) /\ s[k] = "}"
      THEN ParseOk([t |-> "obj", v |-> <<>>], k + 1)
      ELSE ParseMembers(s, k, <<>>)
  ELSE IF s[j] = "-" \/ IsDigit(s[j]) THEN ParseInt(s, j)
  ELSE ParseFail

JSONDecodeError == [t |-> "JSONDecodeError", v |-> <<>>]

\* json.loads(s), for documents built of objects, arrays, strings and
\* integers
json_loads(s) ==
  LET r == ParseValue(s, 1) IN
  IF r.ok /\ SkipWs(s, r.pos) = Len(s) + 1 THEN r.val ELSE JSONDecodeError

RECURSIVE PyEq(_, _)
\* a == b on decoded values: dicts compare as mappings (key order is
\* ignored), lists element by element
PyEq(a, b) ==
  /\ a.t = b.t
  /\ IF a.t = "obj"
       THEN /\ Len(a.v) = Len(b.v)
            /\ \A i \in 1..Len(a.v) : \E j \in 1..Len(b.v) :
                  a.v[i][1] = b.v[j][1] /\ PyEq(a.v[i][2], b.v[j][2])
       ELSE IF a.t = "list"
         THEN /\ Len(a.v) = Len(b.v)
              /\ \A i \in 1..Len(a.v) : PyEq(a.v[i], b.v[i])
         ELSE a.v = b.v

\* -------------------------------------------------- SQLite query semantics
Min(a, b) == IF a < b THEN a ELSE b

\* SQLite folds only the ASCII letters when LIKE compares characters
LowerOf == [c \in {Ascii[i] : i \in 34..59} |-> Ascii[Ord(c) + 1]]

LikeFold(c) == IF c \in DOMAIN LowerOf THEN LowerOf[c] ELSE c

RECURSIVE LikeAt(_, _, _, _)
\* text[j..] LIKE pat[i..]: "%" is any run of characters, "_" any single
\* character, every other character compares case-folded; there is no
\* ESCAPE clause
LikeAt(pat, i, text, j) ==
  IF i > Len(pat) THEN j > Len(text)
  ELSE IF pat[i] = "%"
    THEN \E k \in j..(Len(text) + 1) : LikeAt(pat, i + 1, text, k)
  ELSE /\ j <= Len(text)
       /\ (pat[i] = "_" \/ LikeFold(pat[i]) = LikeFold(text[j]))
       /\ LikeAt(pat, i + 1, text, j + 1)

\* text LIKE pat
Like(text, pat) == LikeAt(pat, 1, text, 1)

RECURSIVE OrderByTsAsc(_)
\* the same sort with the direction left at its default, ASC
OrderByTsAsc(rows) ==
  IF rows = <<>> THEN <<>>
  ELSE LET acc == OrderByTsAsc(SubSeq(rows, 1, Len(rows) - 1))
           r == rows[Len(rows)]
           k == Cardinality({i \in 1..Len(acc) : acc[i].ts <= r.ts})
       IN SubSeq(acc, 1, k) \o <<r>> \o SubSeq(acc, k + 1, Len(acc))

RECURSIVE OrderByTsDesc(_)
\* ORDER BY ts DESC over a table scan: the sorter is stable, rows of equal
\* ts come out in scan (rowid, insertion) order
OrderByTsDesc(rows) ==
  IF rows = <<>> THEN <<>>
  ELSE LET acc == OrderByTsDesc(SubSeq(rows, 1, Len(rows) - 1))
           r == rows[Len(rows)]
           k == Cardinality({i \in 1..Len(acc) : acc[i].ts >= r.ts})
       IN SubSeq(acc, 1, k) \o <<r>> \o SubSeq(acc, k + 1, Len(acc))

\* LIMIT n: a negative n is no limit
Limit(rows, n) == IF n < 0 THEN rows ELSE SubSeq(rows, 1, Min(n, Len(rows)))

\* WHERE payload LIKE pat
WhereLike(rows, pat) ==
  LET Keep(r) == Like(r.payload, pat) IN SelectSeq(rows, Keep)

\* the list comprehension that decodes the fetched rows
DecodeRows(rows) ==
  [i \in 1..Len(rows) |->
     [ts |-> rows[i].ts, sha |-> rows[i].sha, source |-> rows[i].source,
      payload |-> json_loads(rows[i].payload)]]

\* Logger.tail(n) on the table content db
tail(db, n) == DecodeRows(Limit(OrderByTsDesc(db), n))

\* Logger.search(term, limit) on the table content db
search(db, term, limit) ==
  DecodeRows(Limit(OrderByTsDesc(WhereLike(db, <<"%">> \o term \o <<"%">>)),
                   limit))

\* ------------------------------------------------------------------ inputs
JStr(s) == [t |-> "str", v |-> s]

JInt(n) == [t |-> "int", v |-> n]

JList(l) == [t |-> "list", v |-> l]

JObj(pairs) == [t |-> "obj", v |-> pairs]

\* {"m": "hi"}
PayloadHi == JObj(<< <<<<"m">>, JStr(<<"h", "i">>)>> >>)

\* {"a": 1, "b": [1, 2, 3]}
PayloadAB ==
  JObj(<< <<<<"a">>, JInt(1)>>,
          <<<<"b">>, JList(<<JInt(1), JInt(2), JInt(3)>>)>> >>)

\* {"b": [1, 2, 3], "a": 1}: the same mapping, keys inserted in the other
\* order
PayloadBA ==
  JObj(<< <<<<"b">>, JList(<<JInt(1), JInt(2), JInt(3)>>)>>,
          <<<<"a">>, JInt(1)>> >>)

\* {"m": "é\""}: a non-ASCII letter and a quote
PayloadE == JObj(<< <<<<"m">>, JStr(<<"U+00E9", "\"">>)>> >>)

Payloads == {PayloadHi, PayloadAB, PayloadBA, PayloadE}

Threads == {1, 2}

\* each producer thread passes its own label as source
SourceOf(t) == <<"s", "v", "c", IntToText(t)[1]>>

NoThread == 0

\* ------------------------------------------------------------------- state
VARIABLES
  clock,      \* time.time(), in whole seconds
  lock,       \* Logger.lock: its holder, or NoThread
  pc,         \* pc[t]: where thread t is inside Logger.append
  loc,        \* loc[t]: the locals ts, sha, source, payload of thread t
  log,        \* the lines of the gzip file, in file order
  index,      \* the rows of audit_index, in rowid order
  initRows,   \* the number of rows the store held at construction
  appended,   \* history: the arguments of the append calls that returned
  calls,      \* the number of append calls started
  returned,   \* the number of append calls finished, by outcome
  res,        \* the last query and what it returned
  ring,       \* a RingBuffer, the items pushed to it and its last answer
  hub         \* an OmniHub and the calls in progress on it

vars ==
  <<clock, lock, pc, loc, log, index, initRows, appended, calls, returned,
    res, ring, hub>>

NoLocals == [ts |-> 0, sha |-> <<>>, source |-> <<>>, payload |-> JObj(<<>>)]

NoQuery == [op |-> "none", term |-> <<>>, n |-> 0, rows |-> <<>>]

\* now_ts()
now_ts == clock

\* lines 87-89 of append: the locals of a call
Stamped(ts, source, payload) ==
  [ts |-> ts,
   sha |-> sha256_hexdigest(encode(json_dumps(payload, TRUE))),
   source |-> source,
   payload |-> payload]

\* a log line stamped with the time of the write instead of rec's ts
LogLine_restamp(l) ==
  json_dumps(JObj(<< <<<<"t", "s">>, JInt(clock)>>,
                     <<<<"s", "h", "a">>, JStr(l.sha)>>,
                     <<<<"s", "o", "u", "r", "c", "e">>, JStr(l.source)>>,
                     <<<<"p", "a", "y", "l", "o", "a", "d">>, l.payload>> >>),
             FALSE)

\* json.dumps(rec, ensure_ascii=False): the line written to the log
LogLine(l) ==
  json_dumps(JObj(<< <<<<"t", "s">>, JInt(l.ts)>>,
                     <<<<"s", "h", "a">>, JStr(l.sha)>>,
                     <<<<"s", "o", "u", "r", "c", "e">>, JStr(l.source)>>,
                     <<<<"p", "a", "y", "l", "o", "a", "d">>, l.payload>> >>),
             FALSE)

\* a row whose payload text is dumped with the default ensure_ascii=True
IndexRow_ascii(l) ==
  [ts |-> l.ts, sha |-> l.sha, source |-> l.source,
   payload |-> json_dumps(l.payload, TRUE)]

\* the tuple bound to INSERT INTO audit_index VALUES (?, ?, ?, ?)
IndexRow(l) ==
  [ts |-> l.ts, sha |-> l.sha, source |-> l.source,
   payload |-> json_dumps(l.payload, FALSE)]

\* no RingBuffer has been constructed
NoRing ==
  [op |-> "none", size |-> 0, buf |-> <<>>, idx |-> 0, pushed |-> <<>>,
   n |-> 0, out |-> <<>>]

\* no OmniHub has been constructed
NoHub ==
  [made |-> FALSE, fns |-> <<>>, fns0 |-> <<>>, lock |-> FALSE,
   stack |-> <<>>, outcome |-> "none"]

\* a store left by an earlier run of the program
PriorLocals == Stamped(0, SourceOf(1), PayloadHi)

Init ==
  /\ clock = 0
  /\ lock = NoThread
  /\ pc = [t \in Threads |-> "idle"]
  /\ loc = [t \in Threads |-> NoLocals]
  /\ \E n \in 0..1 :
       /\ log = [i \in 1..n |-> LogLine(PriorLocals)]
       /\ index = [i \in 1..n |-> IndexRow(PriorLocals)]
       /\ initRows = n
  /\ appended = <<>>
  /\ calls = 0
  /\ returned = [ok |-> 0, IOError |-> 0, StorageError |-> 0]
  /\ res = NoQuery
  /\ ring = NoRing
  /\ hub = NoHub

\* the wall clock advances
Tick ==
  /\ clock < MaxClock
  /\ clock' = clock + 1
  /\ UNCHANGED <<lock, pc, loc, log, index, initRows, appended, calls,
                 returned, res, ring, hub>>

\* append, lines 87-89: read the clock, hash the payload, build rec
Stamp(t, source, payload) ==
  /\ pc[t] = "idle"
  /\ calls < MaxCalls
  /\ calls' = calls + 1
  /\ loc' = [loc EXCEPT ![t] = Stamped(now_ts, source, payload)]
  /\ pc' = [pc EXCEPT ![t] = "stamped"]
  /\ UNCHANGED <<clock, lock, log, index, initRows, appended, returned, res,
                 ring, hub>>

\* a with block that does not wait for the lock to be free
Acquire_nowait(t) ==
  /\ pc[t] = "stamped"
  /\ lock' = t
  /\ pc' = [pc EXCEPT ![t] = "locked"]
  /\ UNCHANGED <<clock, loc, log, index, initRows, appended, calls, returned,
                 res, ring, hub>>

\* append, line 91: with self.lock
Acquire(t) ==
  /\ pc[t] = "stamped"
  /\ lock = NoThread
  /\ lock' = t
  /\ pc' = [pc EXCEPT ![t] = "locked"]
  /\ UNCHANGED <<clock, loc, log, index, initRows, appended, calls, returned,
                 res, ring, hub>>

\* a log write that opens the file in mode "wt" and so truncates it
WriteLog_truncate(t) ==
  /\ pc[t] = "locked"
  /\ log' = <<LogLine(loc[t])>>
  /\ pc' = [pc EXCEPT ![t] = "logged"]
  /\ UNCHANGED <<clock, lock, loc, index, initRows, appended, calls, returned,
                 res, ring, hub>>

\* append, lines 92-93: the line is appended to the gzip file
WriteLog(t) ==
  /\ pc[t] = "locked"
  /\ log' = Append(log, LogLine(loc[t]))
  /\ pc' = [pc EXCEPT ![t] = "logged"]
  /\ UNCHANGED <<clock, lock, loc, index, initRows, appended, calls, returned,
                 res, ring, hub>>

\* a failed log write whose error is swallowed: append goes on to the insert
WriteLogFail_swallow(t) ==
  /\ pc[t] = "locked"
  /\ pc' = [pc EXCEPT ![t] = "logged"]
  /\ UNCHANGED <<clock, lock, loc, log, index, initRows, appended, calls,
                 returned, res, ring, hub>>

\* a failed log write that leaves without releasing the lock (acquire()
\* with no try/finally in place of the with block)
WriteLogFail_keeplock(t) ==
  /\ pc[t] = "locked"
  /\ pc' = [pc EXCEPT ![t] = "idle"]
  /\ loc' = [loc EXCEPT ![t] = NoLocals]
  /\ returned' = [returned EXCEPT !.IOError = @ + 1]
  /\ UNCHANGED <<clock, lock, log, index, initRows, appended, calls, res,
                 ring, hub>>

\* append, lines 92-93 raise IOError: the with block releases the lock and
\* the error reaches the caller
WriteLogFail(t) ==
  /\ pc[t] = "locked"
  /\ lock' = NoThread
  /\ pc' = [pc EXCEPT ![t] = "idle"]
  /\ loc' = [loc EXCEPT ![t] = NoLocals]
  /\ returned' = [returned EXCEPT !.IOError = @ + 1]
  /\ UNCHANGED <<clock, log, index, initRows, appended, calls, res, ring, hub>>

\* an insert that skips a row whose sha the table already holds
InsertIndex_dedup(t) ==
  /\ pc[t] = "logged"
  /\ index' = IF \E i \in 1..Len(index) : index[i].sha = loc[t].sha
                THEN index
                ELSE Append(index, IndexRow(loc[t]))
  /\ lock' = NoThread
  /\ pc' = [pc EXCEPT ![t] = "idle"]
  /\ loc' = [loc EXCEPT ![t] = NoLocals]
  /\ returned' = [returned EXCEPT !.ok = @ + 1]
  /\ appended' =
       Append(appended, [source |-> loc[t].source, payload |-> loc[t].payload])
  /\ UNCHANGED <<clock, log, initRows, calls, res, ring, hub>>

\* append, lines 95-106: the row is inserted and committed, the lock is
\* released and append returns
InsertIndex(t) ==
  /\ pc[t] = "logged"
  /\ index' = Append(index, IndexRow(loc[t]))
  /\ lock' = NoThread
  /\ pc' = [pc EXCEPT ![t] = "idle"]
  /\ loc' = [loc EXCEPT ![t] = NoLocals]
  /\ returned' = [returned EXCEPT !.ok = @ + 1]
  /\ appended' =
       Append(appended, [source |-> loc[t].source, payload |-> loc[t].payload])
  /\ UNCHANGED <<clock, log, initRows, calls, res, ring, hub>>

\* a failed insert that rolls the log back by dropping its last line
InsertIndexFail_rollback(t) ==
  /\ pc[t] = "logged"
  /\ log' = SubSeq(log, 1, Len(log) - 1)
  /\ lock' = NoThread
  /\ pc' = [pc EXCEPT ![t] = "idle"]
  /\ loc' = [loc EXCEPT ![t] = NoLocals]
  /\ returned' = [returned EXCEPT !.StorageError = @ + 1]
  /\ UNCHANGED <<clock, index, initRows, appended, calls, res, ring, hub>>

\* append, lines 95-106 raise sqlite3.Error: nothing is inserted, the lock
\* is released and the error reaches the caller
InsertIndexFail(t) ==
  /\ pc[t] = "logged"
  /\ lock' = NoThread
  /\ pc' = [pc EXCEPT ![t] = "idle"]
  /\ loc' = [loc EXCEPT ![t] = NoLocals]
  /\ returned' = [returned EXCEPT !.StorageError = @ + 1]
  /\ UNCHANGED <<clock, log, index, initRows, appended, calls, res, ring, hub>>

Next ==
  \/ Tick
  \/ \E t \in Threads, payload \in Payloads : Stamp(t, SourceOf(t), payload)
  \/ \E t \in Threads : Acquire(t)
  \/ \E t \in Threads : WriteLog(t)
  \/ \E t \in Threads : WriteLogFail(t)
  \/ \E t \in Threads : InsertIndex(t)
  \/ \E t \in Threads : InsertIndexFail(t)

\* concurrent producers, with write failures
Spec == Init /\ [][Next]_vars

\* ------------------------------------------------- claims on the writers
\* the threads inside the locked write sequence of append (lines 92-106)
Writing == {t \in Threads : pc[t] \in {"locked", "logged"}}

\* the value of a key of a decoded JSON object
Field(obj, key) ==
  LET i == CHOOSE i \in 1..Len(obj.v) : obj.v[i][1] = key IN obj.v[i][2]

\* C1: at most one append is inside its write sequence (log write, then
\* index insert) at any time, and it is the holder of the lock; no thread
\* starts its log write while another one has not finished its insert.
C1_OneWriter ==
  /\ Cardinality(Writing) <= 1
  /\ \A t \in Threads : t \in Writing <=> lock = t

\* a thread has written its line and not yet inserted its row while the
\* other thread, already stamped, waits for the lock
C1_Witness ==
  \E t, u \in Threads : pc[t] = "logged" /\ pc[u] = "stamped"

\* C2: when no write has failed and no append is inside its locked write
\* sequence, the log and the index hold the same records in the same
\* order: equal length, and the k-th line and the k-th row carry the same
\* ts, sha, source and payload.
C2_LogMatchesIndex ==
  (Writing = {} /\ returned.IOError = 0 /\ returned.StorageError = 0) =>
    /\ Len(log) = Len(index)
    /\ \A k \in 1..Len(log) :
         LET rec == json_loads(log[k]) IN
         /\ rec.t = "obj"
         /\ Field(rec, <<"t", "s">>) = JInt(index[k].ts)
         /\ Field(rec, <<"s", "h", "a">>) = JStr(index[k].sha)
         /\ Field(rec, <<"s", "o", "u", "r", "c", "e">>)
              = JStr(index[k].source)
         /\ Field(rec, <<"p", "a", "y", "l", "o", "a", "d">>)
              = json_loads(index[k].payload)

\* two appends of different threads, stamped in one order and written in
\* the other, have both returned; nothing failed
C2_Witness ==
  /\ Writing = {} /\ returned.IOError = 0 /\ returned.StorageError = 0
  /\ Len(index) = initRows + 2
  /\ index[Len(index)].ts < index[Len(index) - 1].ts
  /\ index[Len(index)].source # index[Len(index) - 1].source

\* C3: once every append call has completed, the index holds its initial
\* rows plus one row per successful call: no write is lost, no call
\* inserts twice, equal payloads are not deduplicated.
C3_RowCount ==
  (\A t \in Threads : pc[t] = "idle") =>
    Len(index) = initRows + returned.ok

\* all calls are over, two of them succeeded and carried the same payload
C3_Witness ==
  /\ \A t \in Threads : pc[t] = "idle"
  /\ returned.ok = 2
  /\ Len(index) = initRows + 2
  /\ index[Len(index)].sha = index[Len(index) - 1].sha
  /\ index[Len(index)].payload = index[Len(index) - 1].payload

\* ---------------------------------------------------------------- queries
\* the arguments the reader calls the queries with
TailArgs == {-1, 0, 1, 2}

\* (the last term is a fingerprint: the sha of the payload {"m": "hi"})
SearchTerms ==
  { <<"m">>, <<"M">>, <<"h", "_">>, <<"%">>, <<"b">>, <<"U+00E9">>,
    PriorLocals.sha }

SearchLimits == {0, 1, 10}

\* a query that takes Logger.lock around its SELECT
QueryReady_locked == res.op = "none" /\ lock = NoThread

\* what tail and search wait for before their SELECT runs: nothing but the
\* reader being at a call; lines 108-151 never touch Logger.lock
QueryReady == res.op = "none"

\* Logger.tail(n): one SELECT over the committed rows
TailQuery(n) ==
  /\ QueryReady
  /\ res' = [op |-> "tail", term |-> <<>>, n |-> n,
             rows |-> tail(index, n)]
  /\ UNCHANGED <<clock, lock, pc, loc, log, index, initRows, appended, calls,
                 returned, ring, hub>>

\* Logger.search(term, limit): one SELECT over the committed rows
SearchQuery(term, limit) ==
  /\ QueryReady
  /\ res' = [op |-> "search", term |-> term, n |-> limit,
             rows |-> search(index, term, limit)]
  /\ UNCHANGED <<clock, lock, pc, loc, log, index, initRows, appended, calls,
                 returned, ring, hub>>

\* the reader takes the returned list and is ready for its next query
QueryReturn ==
  /\ res.op # "none"
  /\ res' = NoQuery
  /\ UNCHANGED <<clock, lock, pc, loc, log, index, initRows, appended, calls,
                 returned, ring, hub>>

\* A step of a producer thread, or of the clock.  Handing the fetched list
\* back to the reader touches nothing the producers read or write, so it is
\* taken before the next producer step.
NextRead ==
  \/ res.op = "none" /\ Tick
  \/ /\ res.op = "none"
     /\ \E t \in Threads, payload \in Payloads : Stamp(t, SourceOf(t), payload)
  \/ res.op = "none" /\ \E t \in Threads : Acquire(t)
  \/ res.op = "none" /\ \E t \in Threads : WriteLog(t)
  \/ res.op = "none" /\ \E t \in Threads : InsertIndex(t)
  \/ \E n \in TailArgs : TailQuery(n)
  \/ \E term \in SearchTerms, limit \in SearchLimits : SearchQuery(term, limit)
  \/ QueryReturn

\* concurrent producers and one reader, no write fails
SpecRead == Init /\ [][NextRead]_vars

\* producers with write failures and one reader
NextAll ==
  \/ res.op = "none" /\ Tick
  \/ /\ res.op = "none"
     /\ \E t \in Threads, payload \in Payloads : Stamp(t, SourceOf(t), payload)
  \/ res.op = "none" /\ \E t \in Threads : Acquire(t)
  \/ res.op = "none" /\ \E t \in Threads : WriteLog(t)
  \/ res.op = "none" /\ \E t \in Threads : WriteLogFail(t)
  \/ res.op = "none" /\ \E t \in Threads : InsertIndex(t)
  \/ res.op = "none" /\ \E t \in Threads : InsertIndexFail(t)
  \/ \E n \in TailArgs : TailQuery(n)
  \/ \E term \in SearchTerms, limit \in SearchLimits : SearchQuery(term, limit)
  \/ QueryReturn

SpecAll == Init /\ [][NextAll]_vars

\* Producers under a fair scheduler: a thread that can take its next step
\* inside append is eventually run.  Nothing obliges a caller to start a
\* call, and nothing obliges a write to succeed.
Fairness ==
  \A t \in Threads :
     /\ WF_vars(Acquire(t))
     /\ WF_vars(WriteLogFail(t) \/ WriteLog(t))
     /\ WF_vars(InsertIndexFail(t) \/ InsertIndex(t))

SpecFair == Init /\ [][Next]_vars /\ Fairness

\* ------------------------------------------------- claims on the queries
\* term occurs in text as a literal, case-sensitive substring
Contains(text, term) ==
  \E i \in 0..(Len(text) - Len(term)) :
     SubSeq(text, i + 1, i + Len(term)) = term

\* the number of positions of a sequence that hold the value x
Count(seq, x) == Cardinality({i \in 1..Len(seq) : seq[i] = x})

\* the rows of the table, decoded as a query returns them
Decoded == DecodeRows(index)

\* C4: tail(n) with n <= 0 returns an empty sequence for every store
\* content, also for n < 0 on a non-empty store.
C4_TailNonPositiveEmpty ==
  (res.op = "tail" /\ res.n <= 0) => res.rows = <<>>

\* C5: among rows of equal timestamp tail lists the most recently inserted
\* one first: the first row of tail(n), n >= 1, is the last inserted of the
\* rows that carry the largest timestamp.
C5_TailNewestOfTiesFirst ==
  (res.op = "tail" /\ res.n >= 1 /\ index # <<>>) =>
    LET newest ==
          CHOOSE i \in 1..Len(index) :
            /\ \A j \in 1..Len(index) : index[j].ts <= index[i].ts
            /\ \A j \in (i + 1)..Len(index) : index[j].ts < index[i].ts
    IN res.rows[1] = Decoded[newest]

\* C6: for n >= 0 tail(n) returns exactly min(n, totalRecords) rows of the
\* table, they carry the largest timestamps, and they are listed in
\* non-increasing timestamp order.
C6_TailLargestSorted ==
  (res.op = "tail" /\ res.n >= 0) =>
    /\ Len(res.rows) = Min(res.n, Len(index))
    /\ \A i \in 1..(Len(res.rows) - 1) : res.rows[i].ts >= res.rows[i + 1].ts
    /\ \A i \in 1..Len(res.rows) :
         Count(res.rows, res.rows[i]) <= Count(Decoded, res.rows[i])
    /\ \A j \in 1..Len(index) :
         Cardinality({i \in 1..Len(res.rows) : res.rows[i].ts >= index[j].ts})
           = Min(Len(res.rows),
                 Cardinality({i \in 1..Len(index) :
                                index[i].ts >= index[j].ts}))

\* tail(2) on three rows inserted out of timestamp order: the middle row is
\* the newest by timestamp
C6_Witness ==
  /\ res.op = "tail" /\ res.n = 2
  /\ Len(index) = 3
  /\ index[2].ts > index[1].ts
  /\ index[2].ts > index[3].ts
  /\ Len(res.rows) = 2

\* C7: search returns a row only if the row's payload text contains the
\* term as a literal, case-sensitive substring; a term that differs in
\* letter case, or holds "%" or "_", matches no row that does not literally
\* contain it.
C7_SearchLiteralOnly ==
  res.op = "search" =>
    \A k \in 1..Len(res.rows) :
       \E i \in 1..Len(index) :
          /\ Decoded[i] = res.rows[k]
          /\ Contains(index[i].payload, res.term)

\* C8: for limit >= 0 search returns exactly min(limit, m) rows, m being
\* the number of rows whose payload text contains the term; they are the
\* most recent matching rows, in non-increasing timestamp order.
C8_SearchCountAndOrder ==
  (res.op = "search" /\ res.n >= 0) =>
    LET match == {i \in 1..Len(index) : Contains(index[i].payload, res.term)}
    IN /\ Len(res.rows) = Min(res.n, Cardinality(match))
       /\ \A k \in 1..(Len(res.rows) - 1) :
            res.rows[k].ts >= res.rows[k + 1].ts
       /\ \A j \in match :
            Cardinality({k \in 1..Len(res.rows) :
                           res.rows[k].ts >= index[j].ts})
              = Min(Len(res.rows),
                    Cardinality({i \in match : index[i].ts >= index[j].ts}))

\* C9: after one successful append(source, P) on an empty store, a search
\* (limit >= 1) for a term that occurs in the serialized text of P returns
\* exactly one row; its decoded payload equals P and its source is the
\* source passed to append.
C9_RoundTrip ==
  ( /\ res.op = "search" /\ res.n >= 1
    /\ initRows = 0 /\ Len(appended) = 1 /\ Len(index) = 1
    /\ Contains(json_dumps(appended[1].payload, FALSE), res.term) ) =>
    /\ Len(res.rows) = 1
    /\ PyEq(res.rows[1].payload, appended[1].payload)
    /\ res.rows[1].source = appended[1].source

\* the one record of the store carries a non-ASCII letter and a quote, and
\* the search is for that letter
C9_Witness ==
  /\ res.op = "search" /\ res.n = 10 /\ res.term = <<"U+00E9">>
  /\ initRows = 0 /\ Len(appended) = 1 /\ Len(index) = 1
  /\ appended[1].payload = PayloadE
  /\ Len(res.rows) = 1

\* C10: the fingerprint is a function of the payload as a mapping: two
\* append calls whose payloads are equal as mappings, whatever the order
\* their keys were inserted in, compute the same sha.
C10_ShaOfMapping ==
  \A t, u \in Threads :
     ( /\ pc[t] # "idle" /\ pc[u] # "idle"
       /\ PyEq(loc[t].payload, loc[u].payload) ) =>
       loc[t].sha = loc[u].sha

\* C11: in every index row the sha column is the content hash of the
\* payload text stored in that row: the text that was hashed and the text
\* that was persisted are the same serialization, also for payloads with
\* non-ASCII strings.
C11_ShaOfStoredText ==
  \A i \in 1..Len(index) :
     index[i].sha = sha256_hexdigest(encode(index[i].payload))

\* C12: search on a fingerprint f re-verifies an entry: when a record with
\* sha f is indexed, search(f) returns it, and when no indexed record has
\* sha f, search(f) returns no row with that sha.
C12_SearchByFingerprint ==
  (res.op = "search" /\ res.n >= 1) =>
    ( (\E i \in 1..Len(index) : index[i].sha = res.term)
        <=> (\E k \in 1..Len(res.rows) : res.rows[k].sha = res.term) )

\* ------------------------------------- claims on the log and on failures
IsPrefix(a, b) == Len(a) <= Len(b) /\ SubSeq(b, 1, Len(a)) = a

\* C13: the log is append-only: in every step of every operation the old
\* content is a prefix of the new content, and tail and search leave the
\* log as it is.
C13_LogAppendOnly ==
  [][IsPrefix(log, log') /\ (res' # res => log' = log)]_vars

\* a log write failed, an insert failed, the log holds two lines and a
\* search has run on the store
C13_Witness ==
  /\ returned.IOError = 1 /\ returned.StorageError = 1
  /\ Len(log) = 2
  /\ res.op = "search"

\* C14: tail and search do not take the append lock: a read the reader
\* calls while a thread is inside the locked write sequence runs at once;
\* it changes neither the lock nor the position of any append nor the
\* table; every row it returns is a whole committed row.
C14_ReadsIgnoreLock ==
  [][ /\ (res.op = "none" /\ lock # NoThread) => QueryReady
      /\ res' # res => (lock' = lock /\ pc' = pc /\ index' = index)
      /\ \A k \in 1..Len(res'.rows) :
            \E i \in 1..Len(index') :
               DecodeRows(index')[i] = res'.rows[k] ]_vars

\* a tail has returned rows while a thread holds the lock with its line
\* written and its row not yet inserted
C14_Witness ==
  /\ res.op = "tail" /\ res.rows # <<>>
  /\ \E t \in Threads : pc[t] = "logged" /\ lock = t

\* C15: when the log write of an append has succeeded and its insert
\* fails, the error reaches the caller, the log keeps the line, the index
\* gains no row, nothing is rolled back or retried; from then on the log
\* holds one more line than the index for every such failure.
C15_InsertFailureLeavesLog ==
  [][ /\ \A t \in Threads :
           (pc[t] = "logged" /\ pc'[t] = "idle"
              /\ returned'.StorageError # returned.StorageError) =>
             /\ log' = log /\ index' = index
             /\ log[Len(log)] = LogLine(loc[t])
             /\ returned'.StorageError = returned.StorageError + 1
             /\ returned'.ok = returned.ok
             /\ lock' = NoThread
      /\ Len(log') = Len(index') + returned'.StorageError
                       + Cardinality({t \in Threads : pc'[t] = "logged"})
    ]_vars

\* an insert has failed, a later call has started, and the log is one line
\* ahead of the index
C15_Witness ==
  /\ returned.StorageError = 1 /\ calls = 2
  /\ \A t \in Threads : pc[t] \in {"idle", "stamped"}
  /\ Len(log) = Len(index) + 1

\* the record a log line holds, in the shape of a decoded index row
RecordOfLine(line) ==
  LET rec == json_loads(line) IN
  [ts |-> Field(rec, <<"t", "s">>).v,
   sha |-> Field(rec, <<"s", "h", "a">>).v,
   source |-> Field(rec, <<"s", "o", "u", "r", "c", "e">>).v,
   payload |-> Field(rec, <<"p", "a", "y", "l", "o", "a", "d">>)]

RECURSIVE IsSubseq(_, _)
\* a is b with some elements left out
IsSubseq(a, b) ==
  IF a = <<>> THEN TRUE
  ELSE IF b = <<>> THEN FALSE
  ELSE \/ Head(a) = Head(b) /\ IsSubseq(Tail(a), Tail(b))
       \/ IsSubseq(a, Tail(b))

\* C16: in every reachable state, with appends in flight and after failed
\* log writes or failed inserts, the index rows in insertion order are a
\* subsequence of the log records in file order: no row without its
\* record, no insert after a failed log write.
C16_IndexWithinLog ==
  IsSubseq(Decoded, [k \in 1..Len(log) |-> RecordOfLine(log[k])])

\* one append failed, and the log holds the rows of the index and one
\* record more
C16_Witness ==
  /\ returned.IOError + returned.StorageError = 1
  /\ Len(index) >= 1
  /\ Len(log) = Len(index) + 1

\* C17: with a clock that never goes backward the records are written to
\* the log, and inserted in the index, in non-decreasing ts order, for
\* every interleaving of concurrent appends.
C17_OrderedByTs ==
  /\ \A k \in 1..(Len(index) - 1) : index[k].ts <= index[k + 1].ts
  /\ \A k \in 1..(Len(log) - 1) :
       RecordOfLine(log[k]).ts <= RecordOfLine(log[k + 1]).ts

\* C18: under fair scheduling every append call that has started runs to
\* its end, by returning or by raising; the lock is held only by a thread
\* inside its write sequence, so a failed append leaves it free for the
\* next one.
C18_AppendCompletes ==
  /\ \A t \in Threads : (pc[t] # "idle") ~> (pc[t] = "idle")
  /\ [](\A t \in Threads : lock = t => pc[t] \in {"locked", "logged"})

\* after an append has failed, another append holds the lock
C18_Witness ==
  /\ returned.IOError + returned.StorageError >= 1
  /\ \E t \in Threads : pc[t] = "locked" /\ lock = t

\* -------------------------------------------------------------- RingBuffer
\* the largest size a RingBuffer is constructed with
MaxRingSize == 3

\* the number of push calls in a run
MaxPushes == 4

\* the items pushed
Items == {"a", "b"}

\* the arguments of last: negative, zero, and up to the largest size
LastArgs == -1..MaxRingSize

\* Python's s[start:] on a list, positions counted from 0
SliceFrom(s, start) ==
  LET from == IF start < 0
                THEN (IF Len(s) + start < 0 THEN 0 ELSE Len(s) + start)
                ELSE Min(start, Len(s))
  IN  SubSeq(s, from + 1, Len(s))

\* RingBuffer.push: the new buf and idx
push(r, x) ==
  IF Len(r.buf) < r.size
    THEN [buf |-> Append(r.buf, x), idx |-> r.idx]
    ELSE [buf |-> [r.buf EXCEPT ![r.idx + 1] = x],
          idx |-> (r.idx + 1) % r.size]

\* RingBuffer.last: self.buf[-n:]
last(r, n) == SliceFrom(r.buf, 0 - n)

\* RingBuffer(size)
NewRing(size) ==
  /\ ring = NoRing
  /\ ring' = [NoRing EXCEPT !.op = "init", !.size = size]
  /\ UNCHANGED <<clock, lock, pc, loc, log, index, initRows, appended, calls,
                 returned, res, hub>>

\* ring.push(x)
Push(x) ==
  /\ ring.op # "none"
  /\ Len(ring.pushed) < MaxPushes
  /\ ring' = [ring EXCEPT !.op = "push",
                          !.buf = push(ring, x).buf,
                          !.idx = push(ring, x).idx,
                          !.pushed = Append(@, x)]
  /\ UNCHANGED <<clock, lock, pc, loc, log, index, initRows, appended, calls,
                 returned, res, hub>>

\* ring.last(n)
Last(n) ==
  /\ ring.op # "none"
  /\ ring' = [ring EXCEPT !.op = "last", !.n = n, !.out = last(ring, n)]
  /\ UNCHANGED <<clock, lock, pc, loc, log, index, initRows, appended, calls,
                 returned, res, hub>>

NextRing ==
  \/ \E size \in 1..MaxRingSize : NewRing(size)
  \/ \E x \in Items : Push(x)
  \/ \E n \in LastArgs : Last(n)

SpecRing == Init /\ [][NextRing]_vars

\* C19: for a RingBuffer of size s >= 1, after any pushes, last(n) with
\* 1 <= n <= min(s, number of pushes) returns the n most recently pushed
\* items in push order, also after push has started to overwrite; the
\* buffer never holds more than s items and idx stays in 0..s-1.
C19_LastIsMostRecent ==
  ring.op # "none" =>
    /\ Len(ring.buf) <= ring.size
    /\ ring.idx \in 0..(ring.size - 1)
    /\ (ring.op = "last" /\ 1 <= ring.n
          /\ ring.n <= Min(ring.size, Len(ring.pushed))) =>
         ring.out = SubSeq(ring.pushed, Len(ring.pushed) - ring.n + 1,
                           Len(ring.pushed))

\* ----------------------------------------------------------------- OmniHub
\* the names functions are registered and called under
Names == {"echo", "loop"}

\* the registered functions, by what their body does with the hub: nothing,
\* hub.list_functions(), hub.call("echo"), hub.register("echo", ...)
Fns == {"plain", "lists", "calls", "registers"}

Frame(op, name, fn) == [op |-> op, name |-> name, fn |-> fn, pc |-> "acquiring"]

Top == hub.stack[Len(hub.stack)]

\* the stack after the innermost operation has returned to its caller
Pop(stack) ==
  IF Len(stack) = 1
    THEN <<>>
    ELSE [k \in 1..(Len(stack) - 1) |->
            IF k = Len(stack) - 1 THEN [stack[k] EXCEPT !.pc = "resumed"]
                                  ELSE stack[k]]

\* what the outermost operation gave the program: the result of the
\* innermost operation only when nothing else is on the stack
Outcome(stack, result) == IF Len(stack) = 1 THEN result ELSE hub.outcome

\* self._fns[name] = fn
SetFn(fns, name, fn) ==
  [k \in DOMAIN fns \cup {name} |-> IF k = name THEN fn ELSE fns[k]]

\* OmniHub()
NewHub ==
  /\ hub = NoHub
  /\ hub' = [NoHub EXCEPT !.made = TRUE]
  /\ UNCHANGED <<clock, lock, pc, loc, log, index, initRows, appended, calls,
                 returned, res, ring>>

\* the program starts hub.register(name, fn), hub.call(name) or
\* hub.list_functions()
HubEnter(op, name, fn) ==
  /\ hub.made
  /\ hub.stack = <<>>
  /\ hub' = [hub EXCEPT !.stack = <<Frame(op, name, fn)>>,
                        !.fns0 = hub.fns,
                        !.outcome = "none"]
  /\ UNCHANGED <<clock, lock, pc, loc, log, index, initRows, appended, calls,
                 returned, res, ring>>

\* with self._lock: waits until the lock is free, then takes it
HubAcquire ==
  /\ hub.stack # <<>>
  /\ Top.pc = "acquiring"
  /\ ~hub.lock
  /\ hub' = [hub EXCEPT !.lock = TRUE, !.stack[Len(hub.stack)].pc = "held"]
  /\ UNCHANGED <<clock, lock, pc, loc, log, index, initRows, appended, calls,
                 returned, res, ring>>

\* register, line 26: the entry is set, the with block releases the lock
RegisterDone ==
  /\ hub.stack # <<>>
  /\ Top.op = "register" /\ Top.pc = "held"
  /\ hub' = [hub EXCEPT !.fns = SetFn(hub.fns, Top.name, Top.fn),
                        !.lock = FALSE,
                        !.stack = Pop(hub.stack),
                        !.outcome = Outcome(hub.stack, "None")]
  /\ UNCHANGED <<clock, lock, pc, loc, log, index, initRows, appended, calls,
                 returned, res, ring>>

\* list_functions, line 36
ListDone ==
  /\ hub.stack # <<>>
  /\ Top.op = "list" /\ Top.pc = "held"
  /\ hub' = [hub EXCEPT !.lock = FALSE,
                        !.stack = Pop(hub.stack),
                        !.outcome = Outcome(hub.stack, "names")]
  /\ UNCHANGED <<clock, lock, pc, loc, log, index, initRows, appended, calls,
                 returned, res, ring>>

\* call, lines 30-31: the name is not registered; KeyError leaves the with
\* block, which releases the lock, and every enclosing function, none of
\* which catches it
CallKeyError ==
  /\ hub.stack # <<>>
  /\ Top.op = "call" /\ Top.pc = "held"
  /\ Top.name \notin DOMAIN hub.fns
  /\ hub' = [hub EXCEPT !.lock = FALSE,
                        !.stack = <<>>,
                        !.outcome = "KeyError"]
  /\ UNCHANGED <<clock, lock, pc, loc, log, index, initRows, appended, calls,
                 returned, res, ring>>

\* call, line 32: the registered function is entered, inside the with block
CallInvoke ==
  /\ hub.stack # <<>>
  /\ Top.op = "call" /\ Top.pc = "held"
  /\ Top.name \in DOMAIN hub.fns
  /\ hub' = [hub EXCEPT !.stack[Len(hub.stack)].pc = "running",
                        !.stack[Len(hub.stack)].fn = hub.fns[Top.name]]
  /\ UNCHANGED <<clock, lock, pc, loc, log, index, initRows, appended, calls,
                 returned, res, ring>>

\* the body of a registered function uses the hub it is registered in
FnUsesHub ==
  /\ hub.stack # <<>>
  /\ Top.op = "call" /\ Top.pc = "running"
  /\ Top.fn # "plain"
  /\ hub' = [hub EXCEPT !.stack =
               Append(@, CASE Top.fn = "lists" -> Frame("list", "", "")
                           [] Top.fn = "calls" -> Frame("call", "echo", "")
                           [] Top.fn = "registers" ->
                                Frame("register", "echo", "plain"))]
  /\ UNCHANGED <<clock, lock, pc, loc, log, index, initRows, appended, calls,
                 returned, res, ring>>

\* call, line 32: the function returns, the with block releases the lock
FnReturn ==
  /\ hub.stack # <<>>
  /\ Top.op = "call"
  /\ \/ Top.pc = "running" /\ Top.fn = "plain"
     \/ Top.pc = "resumed"
  /\ hub' = [hub EXCEPT !.lock = FALSE,
                        !.stack = Pop(hub.stack),
                        !.outcome = Outcome(hub.stack, "result")]
  /\ UNCHANGED <<clock, lock, pc, loc, log, index, initRows, appended, calls,
                 returned, res, ring>>

NextHub ==
  \/ NewHub
  \/ \E name \in Names, fn \in Fns : HubEnter("register", name, fn)
  \/ \E name \in Names : HubEnter("call", name, "")
  \/ HubEnter("list", "", "")
  \/ HubAcquire
  \/ RegisterDone
  \/ ListDone
  \/ CallKeyError
  \/ CallInvoke
  \/ FnUsesHub
  \/ FnReturn

SpecHub == Init /\ [][NextHub]_vars

\* C20: call on a registered name always returns and releases the hub lock,
\* whatever the registered function does, a use of the same hub included:
\* no operation in progress waits for a lock that the call around it holds,
\* and the lock is free when nothing is in progress; call on an unregistered
\* name raises KeyError, leaves the registry unchanged and releases the lock.
C20_CallReturns ==
  /\ \A k \in 1..Len(hub.stack) :
       ~(hub.stack[k].pc = "acquiring" /\ hub.lock)
  /\ hub.stack = <<>> => ~hub.lock
  /\ hub.outcome = "KeyError" =>
       hub.stack = <<>> /\ ~hub.lock /\ hub.fns = hub.fns0

====
